---- MODULE Spec2Model ----
(***************************************************************************)
(* Model of mincraft (src/mincraft/mincraft.py): the incremental build     *)
(* pipeline of main() and the boot-image assembly functions.               *)
(*                                                                         *)
(* The persistent state is the cache directory: the staged tree with its   *)
(* completion markers, the packed initramfs, the ESP directory and the     *)
(* image file.  One process runs at a time; pc is its position in main().  *)
(* A run ends by returning (exit status 0), by an uncaught exception or    *)
(* sys.exit(1) (nonzero status), or by being killed at any point.          *)
(***************************************************************************)
EXTENDS Integers, Sequences, FiniteSets, TLC

\* ------------------------------------------------------------------ bounds
MaxDebs == 2        \* packages a configuration may list
MaxOverlays == 1    \* overlays a configuration may list
MaxSlots == 2       \* slots of an efibootguard image configuration
MaxLayoutSlots == 96    \* slots of a partition layout computed by itself
MaxLoopDevs == 3    \* loop devices of the host (/dev/loop0 ..)

\* ------------------------------------------------------------ configuration
\* Packages are numbered in configuration order; the configuration lists a
\* prefix of them.  Package 1 is the kernel package (the kernel and
\* boot/System.map*, lib/modules/*), package 2 the boot loader package (the
\* grub binary and the systemd stub, and a file under etc); the others ship a
\* file under etc, as every overlay does.  The base archive ships usr and etc.
DebLists == {[i \in 1..n |-> i] : n \in 0..MaxDebs}
OverlayLists == {[i \in 1..n |-> i] : n \in 0..MaxOverlays}
Mechanisms == {"grub", "systemd-stub", "efibootguard", "other"}
\* config["boot"]["mechanism"] and len(config["image"]["slots"])
BootConfigs ==
    {[mechanism |-> m, arch |-> "arm64", slots |-> 0] :
        m \in Mechanisms \ {"efibootguard"}}
    \cup {[mechanism |-> "efibootguard", arch |-> "arm64", slots |-> n] :
            n \in 1..MaxSlots}
    \cup {[mechanism |-> "efibootguard", arch |-> "amd64", slots |-> 1]}
Configs == [debs : DebLists, overlays : OverlayLists, boot : BootConfigs]

\* Paths of the staged tree and the content a unit puts there.
Paths == {"usr", "etc", "boot", "modules", "loader"}
NoFile == <<"none", 0>>
BaseUnit == <<"base", 0>>
Pkg(i) == <<"pkg", i>>
Ovl(j) == <<"ovl", j>>

\* The members of a unit's archive (or the files of an overlay), in order.
Members(u) ==
    IF u = BaseUnit THEN <<"usr", "etc">>
    ELSE IF u[1] = "pkg" /\ u[2] = 1 THEN <<"boot", "modules">>
    ELSE IF u[1] = "pkg" /\ u[2] = 2 THEN <<"loader", "etc">>
    ELSE <<"etc">>

EmptyTree == [p \in Paths |-> NoFile]

VARIABLES
    pc,           \* position of the running process in main(); "idle" when none
    cmd,          \* sys.argv[1] of the running (or last) process; "none" when
                  \* it has no argument
    config,       \* the configuration the current (or last) run parsed
    exit,         \* how the last process ended: "ok" a build run that exited
                  \* with status 0 ("silent" when a tool of it had failed),
                  \* "fail" a build run that did not or an unrecognized
                  \* command, "none" otherwise and while a build run runs
    tree,         \* ROOTFS_DIR: path -> content
    markers,      \* ROOTFS_DIR/.installed_pkgs: completion markers (units)
    lock,         \* ROOTFS_DIR/.installed_pkgs/.initramfs exists
    initrd,       \* INITRD_FILENAME: "absent", "partial" or "complete"
    dirty,        \* a completion marker was written since pack_initramfs()
                  \* last returned
    has_changes,  \* main()'s local
    idx,          \* loop index of the package / overlay loop
    member,       \* index of the archive member being extracted
    packInvoked,  \* pack_initramfs() was called in this run
    startIncomplete, \* is_initramfs_pack_incomplete() held when the run started
    repeat,       \* the run directly follows a successful run of the same config
    startTree,    \* in such a run, the staged tree when the run started
    toolFailed,   \* an external tool exited nonzero in this run
    exc,          \* an exception is propagating through the finally blocks
    loop,         \* losetup -Pf was issued and losetup -D not yet
    mountScope,   \* partitions whose mount was issued and umount not yet
    espDir,       \* ESP_DIR: entry -> content
    espFile,      \* ESP_FILENAME: "absent", "blank", "fat" or "gpt"
    espImg,       \* the entries of ESP_DIR copied into the FAT image
    built,        \* a build function has returned with every tool succeeding,
                  \* and the artifact was not cleaned or rewritten since
    calc          \* a part of the build functions taken by itself: its inputs,
                  \* its progress and its result (CalcSpec only)

ctlVars == <<pc, cmd, config, exit>>
fsVars == <<tree, markers, lock, initrd, dirty>>
espVars == <<espDir, espFile, espImg, built>>
ebgVars == <<exc, loop, mountScope>>
localVars == <<has_changes, idx, member, packInvoked, startIncomplete, repeat,
               startTree, toolFailed, exc, loop, mountScope>>
vars == <<pc, cmd, config, exit, tree, markers, lock, initrd, dirty, has_changes,
          idx, member, packInvoked, startIncomplete, repeat, startTree,
          toolFailed, exc, loop, mountScope, espDir, espFile, espImg, built,
          calc>>

\* is_initramfs_pack_incomplete()
is_initramfs_pack_incomplete == lock \/ initrd = "absent"

\* The locals of a process that is not running.
NoProcess ==
    /\ has_changes' = FALSE
    /\ idx' = 0
    /\ member' = 0
    /\ packInvoked' = FALSE
    /\ startIncomplete' = FALSE
    /\ repeat' = FALSE
    /\ startTree' = EmptyTree
    /\ toolFailed' = FALSE
    /\ exc' = FALSE
    /\ loop' = FALSE
    /\ mountScope' = {}

\* The entries of ESP_DIR, parents before children (the order of glob).
EspEntries ==
    <<"efi", "efi/boot", "efi/ubuntu", "efi/boot/boot.efi", "efi/boot/vmlinux",
      "efi/boot/initrd.gz", "efi/boot/initrd", "efi/ubuntu/vmlinuz",
      "efi/ubuntu/initrd.gz", "efi/ubuntu/grub.cfg">>
EspNames == {EspEntries[i] : i \in 1..Len(EspEntries)}
Dir == <<"dir", 0>>
EmptyEsp == [e \in EspNames |-> NoFile]

\* No computation is looked at by itself.
NoCalc == [fn |-> "none"]

Init ==
    /\ pc = "idle"
    /\ cmd = "none"
    /\ config \in Configs
    /\ exit = "none"
    /\ tree = EmptyTree
    /\ markers = {}
    /\ lock = FALSE
    /\ initrd = "absent"
    /\ dirty = FALSE
    /\ has_changes = FALSE
    /\ idx = 0
    /\ member = 0
    /\ packInvoked = FALSE
    /\ startIncomplete = FALSE
    /\ repeat = FALSE
    /\ startTree = EmptyTree
    /\ toolFailed = FALSE
    /\ exc = FALSE
    /\ loop = FALSE
    /\ mountScope = {}
    /\ espDir = EmptyEsp
    /\ espFile = "absent"
    /\ espImg = {}
    /\ built = FALSE
    /\ calc = NoCalc

\* The process ends with an uncaught exception or sys.exit(1), or is killed:
\* "fail".
End(how) ==
    /\ pc' = "idle"
    /\ exit' = how
    /\ NoProcess
    /\ UNCHANGED <<cmd, config>>

\* The edits of mincraft.yaml between two runs: packages and overlays are
\* added or removed at the end of their lists; the boot section stays.
Edits(c) == {d \in Configs : d.boot = c.boot}

\* The values of sys.argv[1]: none, the four maintenance commands, any other.
Commands ==
    {"none", "clean", "clean-esp", "clean-initramfs", "clean-packages", "other"}

\* main(), lines 459-460: a process starts with the given command.
Invoke(c) ==
    /\ pc = "idle"
    /\ cmd' = c

\* (mutant: an unrecognized command falls through to the build)
Dispatch_Fallthrough(c) ==
    IF c \in {"clean", "clean-esp", "clean-initramfs", "clean-packages"} THEN c
    ELSE "build"

\* The branch of lines 462-480 main() takes for a command.
Dispatch(c) ==
    IF c = "clean" THEN "clean"
    ELSE IF c = "clean-esp" THEN "clean-esp"
    ELSE IF c = "clean-initramfs" THEN "clean-initramfs"
    ELSE IF c = "clean-packages" THEN "clean-packages"
    ELSE IF c # "none" THEN "error"
    ELSE "build"

\* Lines 478-480: an unrecognized command; sys.exit(1).
UnknownCommand ==
    /\ \E c \in Commands : Invoke(c) /\ Dispatch(c) = "error"
    /\ pc' = "idle"
    /\ exit' = "fail"
    /\ UNCHANGED <<config, fsVars, localVars, espVars, calc>>

\* main(), lines 482-499: a default build run.  The archives are fetched, then
\* extract_rootfs() is entered.
StartBuild ==
    /\ \E c \in Commands : Invoke(c) /\ Dispatch(c) = "build"
    /\ \E c \in Edits(config) :
        /\ config' = c
        /\ repeat' = (exit = "ok" /\ c = config)
        /\ startTree' = IF exit = "ok" /\ c = config THEN tree ELSE EmptyTree
    /\ pc' = "base"
    /\ has_changes' = FALSE
    /\ idx' = 0
    /\ member' = 0
    /\ packInvoked' = FALSE
    /\ startIncomplete' = is_initramfs_pack_incomplete
    /\ toolFailed' = FALSE
    /\ exit' = "none"
    /\ UNCHANGED <<fsVars, espVars, exc, loop, mountScope>>
    /\ UNCHANGED calc

\* A tool exited with the given status: remember the first failure of the run.
Ran(tool, ok) == toolFailed' = (toolFailed \/ ~ok)

\* The process is killed (SIGKILL, power loss): nothing more of it executes.
Kill ==
    /\ pc # "idle"
    /\ End("fail")
    /\ UNCHANGED <<fsVars, espVars>>
    /\ UNCHANGED calc

\* ------------------------------------------- extract_rootfs, install_package
\* The unit whose archive the process is at.
Unit == IF pc \in {"base", "base_x"} THEN BaseUnit ELSE Pkg(config.debs[idx])

\* Where main() goes after package number i (0: after the base), and the loop
\* index there.
AfterUnit(i) ==
    IF i < Len(config.debs) THEN "pkg"
    ELSE IF Len(config.overlays) > 0 THEN "overlay" ELSE "decide"
IdxAfterUnit(i) ==
    IF i < Len(config.debs) THEN i + 1
    ELSE IF Len(config.overlays) > 0 THEN 1 ELSE 0

\* (mutant: one marker stands for the base and every package)
IsInstalled_SharedMarker(u) == BaseUnit \in markers

\* os.path.isfile(extract_indicator) / os.path.isfile(install_indicator)
IsInstalled(u) == u \in markers

\* (mutant: the loop stops one member short)
AllExtracted_OffByOne(u, m) == m >= Len(Members(u))

\* The loop over the members has extracted every member.
AllExtracted(u, m) == m > Len(Members(u))

\* extract_rootfs(), lines 119-124, and install_package(), lines 145-158: the
\* unit's marker exists, the function returns False.
ExtractSkip ==
    /\ pc \in {"base", "pkg"}
    /\ IsInstalled(Unit)
    /\ pc' = AfterUnit(idx)
    /\ idx' = IdxAfterUnit(idx)
    /\ UNCHANGED <<config, exit, fsVars, has_changes, member, packInvoked,
                   startIncomplete, repeat, startTree, toolFailed, ebgVars, espVars>>
    /\ UNCHANGED <<cmd, calc>>

\* Lines 126-127 and 160-161: the archive is opened and its members are listed.
ExtractOpen ==
    /\ pc \in {"base", "pkg"}
    /\ ~IsInstalled(Unit)
    /\ pc' = IF pc = "base" THEN "base_x" ELSE "pkg_x"
    /\ member' = 1
    /\ UNCHANGED <<config, exit, fsVars, has_changes, idx, packInvoked,
                   startIncomplete, repeat, startTree, toolFailed, ebgVars, espVars>>
    /\ UNCHANGED <<cmd, calc>>

\* Lines 148-152 (ArError, sys.exit(1)) and 126 (tarfile.open raises): the
\* archive is not valid.
ExtractBadArchive ==
    /\ pc \in {"base", "pkg"}
    /\ ~IsInstalled(Unit) \/ pc = "pkg"
    /\ End("fail")
    /\ UNCHANGED <<fsVars, espVars>>
    /\ UNCHANGED calc

\* Lines 129-130 and 163-164: one member is extracted over the staged tree.
ExtractMember ==
    /\ pc \in {"base_x", "pkg_x"}
    /\ ~AllExtracted(Unit, member)
    /\ tree' = [tree EXCEPT ![Members(Unit)[member]] = Unit]
    /\ member' = member + 1
    /\ UNCHANGED <<ctlVars, markers, lock, initrd, dirty, has_changes, idx,
                   packInvoked, startIncomplete, repeat, startTree, toolFailed, ebgVars, espVars>>
    /\ UNCHANGED <<cmd, calc>>

\* tgz.extract() raises on a member: the exception leaves main().
ExtractMemberFails ==
    /\ pc \in {"base_x", "pkg_x"}
    /\ ~AllExtracted(Unit, member)
    /\ End("fail")
    /\ UNCHANGED <<fsVars, espVars>>
    /\ UNCHANGED calc

\* Lines 132-134 and 166-167: the marker is created and True is returned;
\* main() ors it into has_changes (lines 499, 502).
ExtractMark ==
    /\ pc \in {"base_x", "pkg_x"}
    /\ AllExtracted(Unit, member)
    /\ markers' = markers \cup {Unit}
    /\ dirty' = TRUE
    /\ has_changes' = TRUE
    /\ pc' = AfterUnit(idx)
    /\ idx' = IdxAfterUnit(idx)
    /\ member' = 0
    /\ UNCHANGED <<config, exit, tree, lock, initrd, packInvoked,
                   startIncomplete, repeat, startTree, toolFailed, ebgVars, espVars>>
    /\ UNCHANGED <<cmd, calc>>

\* ------------------------------------------------------------- copy_overlay
\* (mutant: a file the staged tree already has is not overwritten)
CopyTree_KeepExisting(o, t) ==
    [p \in Paths |-> IF /\ \E k \in 1..Len(Members(Ovl(o))) : Members(Ovl(o))[k] = p
                        /\ t[p] = NoFile
                     THEN Ovl(o) ELSE t[p]]

\* shutil.copytree(overlay, ROOTFS_DIR, dirs_exist_ok=True): every file of the
\* overlay is written over the staged tree.
CopyTree(o, t) ==
    [p \in Paths |-> IF \E k \in 1..Len(Members(Ovl(o))) : Members(Ovl(o))[k] = p
                     THEN Ovl(o) ELSE t[p]]

\* copy_overlay()'s return value, line 178: the comparison of line 174 is not
\* consulted.
copy_overlay_returns(o, t) == TRUE

\* Where main() goes after overlay number i, and the loop index there.
AfterOverlay(i) == IF i < Len(config.overlays) THEN "overlay" ELSE "decide"
IdxAfterOverlay(i) == IF i < Len(config.overlays) THEN i + 1 ELSE 0

\* copy_overlay(), lines 170-178, and main(), lines 504-506.
copy_overlay ==
    /\ pc = "overlay"
    /\ LET o == config.overlays[idx] IN
        /\ tree' = CopyTree(o, tree)
        /\ has_changes' = (has_changes \/ copy_overlay_returns(o, tree))
    /\ pc' = AfterOverlay(idx)
    /\ idx' = IdxAfterOverlay(idx)
    /\ UNCHANGED <<config, exit, markers, lock, initrd, dirty, member, packInvoked,
                   startIncomplete, repeat, startTree, toolFailed, ebgVars, espVars>>
    /\ UNCHANGED <<cmd, calc>>

\* shutil.copytree() raises (an unreadable file, a full disk).
copy_overlay_fails ==
    /\ pc = "overlay"
    /\ End("fail")
    /\ UNCHANGED <<fsVars, espVars>>
    /\ UNCHANGED calc

\* ------------------------------------------ run_depmod, pack_initramfs
\* (mutant: the incomplete-pack test is dropped)
NeedPack_ChangesOnly == has_changes

\* (mutant: main() never packs)
NeedPack_Never == FALSE

\* main(), line 508.
NeedPack == has_changes \/ is_initramfs_pack_incomplete

\* main(), lines 508-512: pack, or go on to the boot artifact.
Decide ==
    /\ pc = "decide"
    /\ pc' = IF NeedPack THEN "depmod" ELSE "esp_check"
    /\ UNCHANGED <<config, exit, fsVars, localVars, espVars>>
    /\ UNCHANGED <<cmd, calc>>

\* run_depmod(), lines 138-139: glob(...)[0] of an empty list raises IndexError.
DepmodHasInputs == tree["boot"] # NoFile /\ tree["modules"] # NoFile

run_depmod_raises ==
    /\ pc = "depmod"
    /\ ~DepmodHasInputs
    /\ End("fail")
    /\ UNCHANGED <<fsVars, espVars>>
    /\ UNCHANGED calc

\* Where the process goes after an external tool run without check=True, or
\* through subprocess.call, exited with the given status: the status is
\* dropped.
Unchecked(ok, next) == next

\* Where the process goes after an external tool run with check=True (or
\* through check_output) exited with the given status: a nonzero status raises
\* CalledProcessError.
Checked(ok, next) == IF ok THEN next ELSE "raise"

\* run_depmod(), line 141: subprocess.run without check.
run_depmod ==
    /\ pc = "depmod"
    /\ DepmodHasInputs
    /\ \E ok \in BOOLEAN :
        /\ Ran("depmod", ok)
        /\ pc' = Unchecked(ok, "pack")
    /\ UNCHANGED <<config, exit, fsVars, has_changes, idx, member, packInvoked,
                   startIncomplete, repeat, startTree, ebgVars, espVars>>
    /\ UNCHANGED <<cmd, calc>>

\* pack_initramfs(), lines 181-182: the lock marker is created.
PackLock ==
    /\ pc = "pack"
    /\ lock' = TRUE
    /\ packInvoked' = TRUE
    /\ pc' = "pack_pipe"
    /\ UNCHANGED <<config, exit, tree, markers, initrd, dirty, has_changes, idx,
                   member, startIncomplete, repeat, startTree, toolFailed, ebgVars, espVars>>
    /\ UNCHANGED <<cmd, calc>>

\* Lines 183-191: /bin/sh starts the pipeline; the redirection truncates the
\* archive file before any member has written to it.
PackPipelineStart ==
    /\ pc = "pack_pipe"
    /\ initrd' = "partial"
    /\ pc' = "pack_wait"
    /\ UNCHANGED <<config, exit, tree, markers, lock, dirty, localVars, espVars>>
    /\ UNCHANGED <<cmd, calc>>

\* The exit status of `find . | (cpio ...) | pv ... > file` under /bin/sh is
\* the status of its last member, pv.
PipelineStatus(findOk, cpioOk, pvOk) == pvOk

\* Lines 183-191: the pipeline ends.  The archive is complete when every
\* member succeeded; check=True raises when the shell's status is nonzero.
PackPipelineEnd ==
    /\ pc = "pack_wait"
    /\ \E findOk, cpioOk, pvOk \in BOOLEAN :
        /\ initrd' = IF findOk /\ cpioOk /\ pvOk THEN "complete" ELSE "partial"
        /\ Ran("sh", findOk /\ cpioOk /\ pvOk)
        /\ pc' = Checked(PipelineStatus(findOk, cpioOk, pvOk), "pack_unlock")
    /\ UNCHANGED <<config, exit, tree, markers, lock, dirty, has_changes, idx,
                   member, packInvoked, startIncomplete, repeat, startTree,
                   ebgVars, espVars>>
    /\ UNCHANGED <<cmd, calc>>

\* (mutant: pack_initramfs() returns without removing the lock marker)
PackUnlock_KeepsLock ==
    /\ pc = "pack_unlock"
    /\ dirty' = FALSE
    /\ pc' = "esp_check"
    /\ UNCHANGED <<config, exit, tree, markers, lock, initrd, localVars, espVars>>
    /\ UNCHANGED <<cmd, calc>>

\* Line 192: os.unlink(pack_lock); main() goes on to the boot artifact.
PackUnlock ==
    /\ pc = "pack_unlock"
    /\ lock' = FALSE
    /\ dirty' = FALSE
    /\ pc' = "esp_check"
    /\ UNCHANGED <<config, exit, tree, markers, initrd, localVars, espVars>>
    /\ UNCHANGED <<cmd, calc>>

\* CalledProcessError leaves main(): the process exits with status 1.
Raise ==
    /\ pc = "raise"
    /\ End("fail")
    /\ UNCHANGED <<fsVars, espVars>>
    /\ UNCHANGED calc

\* ---------------------------------------------------------- boot artifact
\* is_esp_created(), lines 200-201: ESP_DIR is a directory and ESP_FILENAME is
\* a file.
EspDirExists == espDir["efi"] # NoFile
is_esp_created == EspDirExists /\ espFile # "absent"

\* main()'s locals of the pipeline are dead after line 508.
PipelineDone ==
    /\ has_changes' = FALSE
    /\ member' = 0
    /\ packInvoked' = FALSE
    /\ startIncomplete' = FALSE
    /\ repeat' = FALSE
    /\ startTree' = EmptyTree

\* The build function main() calls for a mechanism, lines 515-524; for an
\* unsupported mechanism main() prints a message and returns.
BuildFunction(m) ==
    IF m = "grub" THEN "grub"
    ELSE IF m = "systemd-stub" THEN "stub"
    ELSE IF m = "efibootguard" THEN "ebg"
    ELSE "exit0"

\* main(), lines 512-524.
EspCheck ==
    /\ pc = "esp_check"
    /\ pc' = IF is_esp_created THEN "exit0" ELSE BuildFunction(config.boot.mechanism)
    /\ idx' = 1
    /\ PipelineDone
    /\ UNCHANGED <<config, exit, fsVars, toolFailed, ebgVars, espVars>>
    /\ UNCHANGED <<cmd, calc>>

\* os.makedirs(directory, exist_ok=True) under ESP_DIR.
MakeDirs(esp, dirs) == [e \in EspNames |-> IF e \in dirs THEN Dir ELSE esp[e]]

\* The content of INITRD_FILENAME.
InitrdContent == <<initrd, 0>>

\* build_esp_grub(), lines 299-303: source (a path of the staged tree, or the
\* archive) and destination of file number i.
GrubSrc(i) ==
    IF i = 1 THEN tree["loader"] ELSE IF i = 2 THEN tree["boot"] ELSE InitrdContent
GrubDst(i) ==
    IF i = 1 THEN "efi/boot/boot.efi"
    ELSE IF i = 2 THEN "efi/ubuntu/vmlinuz" ELSE "efi/ubuntu/initrd.gz"
GrubDstDir(i) == IF i = 1 THEN {"efi", "efi/boot"} ELSE {"efi", "efi/ubuntu"}
GrubFiles == 3

\* filecmp.cmp(f1, f2) of lines 311-313, called with its default shallow=True:
\* two files whose os.stat signatures (type, size, modification time) are
\* equal are taken to be equal and are not read; otherwise their contents are
\* compared.  sameSig: the two signatures are equal.
filecmp_cmp(f1, f2, sameSig) == sameSig \/ f1 = f2

\* Line 311: the destination is missing or filecmp.cmp returns False.
NeedsCopy(src, dst, sameSig) == dst = NoFile \/ ~filecmp_cmp(src, dst, sameSig)

\* Lines 305-315: one file of the list; filecmp.cmp and shutil.copyfile raise
\* when the source is missing.  The signatures of two files of different
\* content are equal or not.
build_esp_grub_file ==
    /\ pc = "grub"
    /\ idx <= GrubFiles
    /\ IF espDir[GrubDst(idx)] # NoFile /\ GrubSrc(idx) = NoFile
       THEN pc' = "raise" /\ UNCHANGED <<idx, espDir>>
       ELSE \E sameSig \in BOOLEAN :
            IF NeedsCopy(GrubSrc(idx), espDir[GrubDst(idx)], sameSig)
            THEN IF GrubSrc(idx) = NoFile
                 THEN /\ espDir' = MakeDirs(espDir, GrubDstDir(idx))
                      /\ pc' = "raise"
                      /\ UNCHANGED idx
                 ELSE /\ espDir' = [MakeDirs(espDir, GrubDstDir(idx))
                                       EXCEPT ![GrubDst(idx)] = GrubSrc(idx)]
                      /\ idx' = idx + 1
                      /\ UNCHANGED pc
            ELSE idx' = idx + 1 /\ UNCHANGED <<pc, espDir>>
    /\ UNCHANGED <<config, exit, fsVars, has_changes, member, packInvoked,
                   startIncomplete, repeat, startTree, toolFailed, ebgVars, espFile, espImg, built>>
    /\ UNCHANGED <<cmd, calc>>

\* Lines 317-330: grub.cfg is written, then pack_esp() is called.  open()
\* raises when the directory efi/ubuntu does not exist.
build_esp_grub_cfg ==
    /\ pc = "grub"
    /\ idx > GrubFiles
    /\ IF espDir["efi/ubuntu"] = NoFile
       THEN pc' = "raise" /\ UNCHANGED espDir
       ELSE /\ espDir' = [espDir EXCEPT !["efi/ubuntu/grub.cfg"] = <<"cfg", 0>>]
            /\ pc' = "pack_esp"
    /\ UNCHANGED <<config, exit, fsVars, localVars, espFile, espImg, built>>
    /\ UNCHANGED <<cmd, calc>>

\* build_esp_systemd_stub(), lines 229-239: the destination directory is made.
build_esp_systemd_stub ==
    /\ pc = "stub"
    /\ espDir' = MakeDirs(espDir, {"efi", "efi/boot"})
    /\ pc' = "stub_kernel"
    /\ UNCHANGED <<config, exit, fsVars, localVars, espFile, espImg, built>>
    /\ UNCHANGED <<cmd, calc>>

\* Lines 241-248 and open_kernel(), lines 204-213: the kernel is decompressed
\* into efi/boot/vmlinux; gzip.open raises when the kernel file is missing.
StubKernel ==
    /\ pc = "stub_kernel"
    /\ IF tree["boot"] = NoFile
       THEN pc' = "raise" /\ UNCHANGED espDir
       ELSE /\ espDir' = [espDir EXCEPT !["efi/boot/vmlinux"] = tree["boot"]]
            /\ pc' = "stub_initrd"
    /\ UNCHANGED <<config, exit, fsVars, localVars, espFile, espImg, built>>
    /\ UNCHANGED <<cmd, calc>>

\* Lines 250-262 and open_initrd(), lines 216-225: the archive is copied as
\* initrd.gz and, decompressed, as initrd.
StubInitrd ==
    /\ pc = "stub_initrd"
    /\ IF initrd = "absent"
       THEN pc' = "raise" /\ UNCHANGED espDir
       ELSE /\ espDir' = [espDir EXCEPT !["efi/boot/initrd.gz"] = InitrdContent,
                                        !["efi/boot/initrd"] = InitrdContent]
            /\ pc' = "stub_objcopy"
    /\ UNCHANGED <<config, exit, fsVars, localVars, espFile, espImg, built>>
    /\ UNCHANGED <<cmd, calc>>

\* Lines 264-294: objcopy (check=True) writes the boot executable from
\* etc/os-release and the stub, then pack_esp() is called.
StubObjcopy ==
    /\ pc = "stub_objcopy"
    /\ \E ok \in BOOLEAN :
        /\ Ran("objcopy", ok /\ tree["etc"] # NoFile /\ tree["loader"] # NoFile)
        /\ pc' = Checked(ok /\ tree["etc"] # NoFile /\ tree["loader"] # NoFile,
                         "pack_esp")
        /\ espDir' = IF ok /\ tree["etc"] # NoFile /\ tree["loader"] # NoFile
                     THEN [espDir EXCEPT !["efi/boot/boot.efi"] = <<"stub", 0>>]
                     ELSE espDir
    /\ UNCHANGED <<config, exit, fsVars, has_changes, idx, member, packInvoked,
                   startIncomplete, repeat, startTree, ebgVars, espFile, espImg, built>>
    /\ UNCHANGED <<cmd, calc>>

\* pack_esp(), lines 435-437: the image file is created (or truncated).
pack_esp ==
    /\ pc = "pack_esp"
    /\ espFile' = "blank"
    /\ espImg' = {}
    /\ built' = FALSE
    /\ pc' = "pack_mkfs"
    /\ UNCHANGED <<config, exit, fsVars, localVars, espDir>>
    /\ UNCHANGED <<cmd, calc>>

\* The first entry of ESP_DIR at or after position i (0 when there is none).
NextEntry(i) ==
    IF \E j \in i..Len(EspEntries) : espDir[EspEntries[j]] # NoFile
    THEN CHOOSE j \in i..Len(EspEntries) :
            /\ espDir[EspEntries[j]] # NoFile
            /\ \A k \in i..(j - 1) : espDir[EspEntries[k]] = NoFile
    ELSE 0

\* Line 439: mkfs.vfat, check=True.
PackMkfs ==
    /\ pc = "pack_mkfs"
    /\ \E ok \in BOOLEAN :
        /\ Ran("mkfs.vfat", ok)
        /\ espFile' = IF ok THEN "fat" ELSE espFile
        /\ pc' = Checked(ok, IF NextEntry(1) = 0 THEN "exit0" ELSE "pack_copy")
    /\ idx' = NextEntry(1)
    /\ built' = (pc' = "exit0")
    /\ UNCHANGED <<config, exit, fsVars, has_changes, member, packInvoked,
                   startIncomplete, repeat, startTree, ebgVars, espDir, espImg>>
    /\ UNCHANGED <<cmd, calc>>

\* Lines 441-455: mmd or mcopy (check=True) of one entry of ESP_DIR.
PackCopy ==
    /\ pc = "pack_copy"
    /\ \E ok \in BOOLEAN :
        /\ Ran("mcopy", ok)
        /\ espImg' = IF ok THEN espImg \cup {EspEntries[idx]} ELSE espImg
        /\ pc' = Checked(ok, IF NextEntry(idx + 1) = 0 THEN "exit0" ELSE "pack_copy")
    /\ idx' = NextEntry(idx + 1)
    /\ built' = (pc' = "exit0")
    /\ UNCHANGED <<config, exit, fsVars, has_changes, member, packInvoked,
                   startIncomplete, repeat, startTree, ebgVars, espDir, espFile>>
    /\ UNCHANGED <<cmd, calc>>

\* --------------------------------------------------- build_esp_efibootguard
\* build_esp_efibootguard(), lines 334-349: the architecture and the
\* bootloader binary are checked; sys.exit(1) when the architecture is not
\* arm64 or the binary is missing on a host that is not aarch64; on aarch64 the
\* binary is built (check=True).
EbgPrepare ==
    /\ pc = "ebg"
    /\ \E binary \in {"present", "cross", "built", "build fails"} :
        /\ Ran("make", binary # "build fails" \/ config.boot.arch # "arm64")
        /\ pc' = IF config.boot.arch # "arm64" \/ binary = "cross" THEN "raise"
                 ELSE Checked(binary # "build fails", "ebg_image")
    /\ UNCHANGED <<config, exit, fsVars, has_changes, idx, member, packInvoked,
                   startIncomplete, repeat, startTree, ebgVars, espVars>>
    /\ UNCHANGED <<cmd, calc>>

\* Lines 351-354: the image file is created (or truncated).
EbgCreateImage ==
    /\ pc = "ebg_image"
    /\ espFile' = "blank"
    /\ espImg' = {}
    /\ built' = FALSE
    /\ pc' = "ebg_parted"
    /\ UNCHANGED <<config, exit, fsVars, localVars, espDir>>
    /\ UNCHANGED <<cmd, calc>>

\* Lines 356-378: parted, check=True.
EbgParted ==
    /\ pc = "ebg_parted"
    /\ \E ok \in BOOLEAN :
        /\ Ran("parted", ok)
        /\ espFile' = IF ok THEN "gpt" ELSE espFile
        /\ pc' = Checked(ok, "ebg_find")
    /\ UNCHANGED <<config, exit, fsVars, has_changes, idx, member, packInvoked,
                   startIncomplete, repeat, startTree, ebgVars, espDir, espImg,
                   built>>
    /\ UNCHANGED <<cmd, calc>>

\* Line 381: losetup -f through check_output, which raises on a nonzero status.
EbgFindLoop ==
    /\ pc = "ebg_find"
    /\ \E ok \in BOOLEAN :
        /\ Ran("losetup -f", ok)
        /\ pc' = Checked(ok, "ebg_attach")
    /\ UNCHANGED <<config, exit, fsVars, has_changes, idx, member, packInvoked,
                   startIncomplete, repeat, startTree, ebgVars, espVars>>
    /\ UNCHANGED <<cmd, calc>>

\* Line 383: losetup -Pf through subprocess.call.
EbgAttach ==
    /\ pc = "ebg_attach"
    /\ \E ok \in BOOLEAN :
        /\ Ran("losetup -Pf", ok)
        /\ pc' = Unchecked(ok, "ebg_mkdtemp")
    /\ loop' = TRUE
    /\ UNCHANGED <<config, exit, fsVars, has_changes, idx, member, packInvoked,
                   startIncomplete, repeat, startTree, exc, mountScope, espVars>>
    /\ UNCHANGED <<cmd, calc>>

\* The steps of lines 386-426 that run one external tool through
\* subprocess.call and have no other effect on the state of the model.
EbgCalls ==
    {"esp_mkfs", "esp_mkdir", "esp_cp", "slot_mkfs", "slot_label", "slot_setenv",
     "slot_kernel", "slot_initrd"}
EbgMounts == {"esp_mount", "slot_mount"}
EbgUmounts == {"esp_umount", "slot_umount"}

\* The statement that follows a step in the source.
EbgNext(p) ==
    CASE p = "ebg_mkdtemp" -> "esp_mkfs"
      [] p = "esp_mkfs" -> "esp_mount"
      [] p = "esp_mount" -> "esp_mkdir"
      [] p = "esp_mkdir" -> "esp_cp"
      [] p = "esp_cp" -> "esp_umount"
      [] p = "slot_mkfs" -> "slot_mount"
      [] p = "slot_mount" -> "slot_label"
      [] p = "slot_label" -> "slot_setenv"
      [] p = "slot_setenv" -> "slot_kernel"
      [] p = "slot_kernel" -> "slot_initrd"
      [] p = "slot_initrd" -> "slot_umount"

\* (mutant: the outer try statement has no finally block)
EbgHandler_NoDetach(p) ==
    IF p \in {"esp_mkdir", "esp_cp"} THEN "esp_umount"
    ELSE IF p \in {"slot_label", "slot_setenv", "slot_kernel", "slot_initrd"}
    THEN "slot_umount"
    ELSE "raise"

\* (mutant: the inner try statements have no finally block)
EbgHandler_NoUmount(p) ==
    IF p \in {"ebg_mkdtemp", "esp_mkfs", "esp_mount", "esp_mkdir", "esp_cp",
              "esp_umount", "slot_mkfs", "slot_mount", "slot_label",
              "slot_setenv", "slot_kernel", "slot_initrd", "slot_umount"}
    THEN "ebg_detach"
    ELSE "raise"

\* Where an exception raised at a step goes: to the finally block of the
\* innermost try statement that encloses the step (lines 386-430).
EbgHandler(p) ==
    IF p \in {"esp_mkdir", "esp_cp"} THEN "esp_umount"
    ELSE IF p \in {"slot_label", "slot_setenv", "slot_kernel", "slot_initrd"}
    THEN "slot_umount"
    ELSE IF p \in {"ebg_mkdtemp", "esp_mkfs", "esp_mount", "esp_umount",
                   "slot_mkfs", "slot_mount", "slot_umount"}
    THEN "ebg_detach"
    ELSE "raise"

\* Line 387: tempfile.mkdtemp().
EbgMkdtemp ==
    /\ pc = "ebg_mkdtemp"
    /\ pc' = EbgNext(pc)
    /\ UNCHANGED <<config, exit, fsVars, localVars, espVars>>
    /\ UNCHANGED <<cmd, calc>>

\* Lines 390-424: one tool is run through subprocess.call.  Line 417:
\* open_kernel() needs the kernel file.
EbgCall ==
    /\ pc \in EbgCalls
    /\ pc = "slot_kernel" => tree["boot"] # NoFile
    /\ \E ok \in BOOLEAN :
        /\ Ran(pc, ok)
        /\ pc' = Unchecked(ok, EbgNext(pc))
    /\ UNCHANGED <<config, exit, fsVars, has_changes, idx, member, packInvoked,
                   startIncomplete, repeat, startTree, ebgVars, espVars>>
    /\ UNCHANGED <<cmd, calc>>

\* A statement of a try body of lines 387-424 raises before it has run its
\* tool: mkdtemp or a temporary file cannot be created, open_kernel() does not
\* find the kernel, subprocess.call cannot start the tool.
EbgRaises ==
    /\ pc \in {"ebg_mkdtemp"} \cup EbgCalls \cup EbgMounts
    /\ exc' = TRUE
    /\ pc' = EbgHandler(pc)
    /\ UNCHANGED <<config, exit, fsVars, has_changes, idx, member, packInvoked,
                   startIncomplete, repeat, startTree, toolFailed, loop,
                   mountScope, espVars>>
    /\ UNCHANGED <<cmd, calc>>

\* The partition a mount step mounts: the ESP is partition 1, slot k is
\* partition 1 + k (line 399).
Partition(p, k) == IF p = "esp_mount" THEN 1 ELSE 1 + k

\* Lines 391 and 408: mount through subprocess.call.
EbgMount ==
    /\ pc \in EbgMounts
    /\ \E ok \in BOOLEAN :
        /\ Ran("mount", ok)
        /\ pc' = Unchecked(ok, EbgNext(pc))
    /\ mountScope' = mountScope \cup {Partition(pc, idx)}
    /\ UNCHANGED <<config, exit, fsVars, has_changes, idx, member, packInvoked,
                   startIncomplete, repeat, startTree, exc, loop, espVars>>
    /\ UNCHANGED <<cmd, calc>>

\* Where the process goes when a finally block that unmounts has run: on with
\* the exception, to the next slot, or to the end of the outer try statement.
AfterUmount(e, k) ==
    IF e THEN "ebg_detach"
    ELSE IF k < config.boot.slots THEN "slot_mkfs" ELSE "ebg_detach"

\* Lines 396 and 426: umount through subprocess.call, in a finally block.
EbgUmount ==
    /\ pc \in EbgUmounts
    /\ \E ok \in BOOLEAN :
        /\ Ran("umount", ok)
        /\ pc' = Unchecked(ok, AfterUmount(exc, IF pc = "esp_umount" THEN 0 ELSE idx))
    /\ idx' = IF pc = "esp_umount" THEN 1 ELSE idx + 1
    /\ mountScope' = {}
    /\ UNCHANGED <<config, exit, fsVars, has_changes, member, packInvoked,
                   startIncomplete, repeat, startTree, exc, loop, espVars>>
    /\ UNCHANGED <<cmd, calc>>

\* Lines 427-430: losetup -D through subprocess.call, in the finally block of
\* the outer try statement; then the function returns or the exception goes on.
EbgDetach ==
    /\ pc = "ebg_detach"
    /\ \E ok \in BOOLEAN :
        /\ Ran("losetup -D", ok)
        /\ pc' = Unchecked(ok, IF exc THEN "raise" ELSE "exit0")
    /\ loop' = FALSE
    /\ built' = (pc' = "exit0" /\ ~toolFailed')
    /\ UNCHANGED <<config, exit, fsVars, has_changes, idx, member, packInvoked,
                   startIncomplete, repeat, startTree, exc, mountScope, espDir,
                   espFile, espImg>>
    /\ UNCHANGED <<cmd, calc>>

\* The process exits with status 0.
Exit0 ==
    /\ pc = "exit0"
    /\ pc' = "idle"
    /\ exit' = IF toolFailed THEN "silent" ELSE "ok"
    /\ NoProcess
    /\ UNCHANGED <<config, fsVars, espVars>>
    /\ UNCHANGED <<cmd, calc>>

\* ------------------------------------------------------- the clean commands
\* main(), lines 462-464: clean removes the whole cache directory.
Clean ==
    /\ \E c \in Commands : Invoke(c) /\ Dispatch(c) = "clean"
    /\ pc' = "idle"
    /\ tree' = EmptyTree
    /\ markers' = {}
    /\ lock' = FALSE
    /\ initrd' = "absent"
    /\ dirty' = FALSE
    /\ espDir' = EmptyEsp
    /\ espFile' = "absent"
    /\ espImg' = {}
    /\ built' = FALSE
    /\ exit' = "none"
    /\ UNCHANGED <<config, localVars>>
    /\ UNCHANGED calc

\* main(), lines 470-474: clean-initramfs removes the staged tree (the markers
\* and the lock marker with it) and the archive.
CleanInitramfs ==
    /\ \E c \in Commands : Invoke(c) /\ Dispatch(c) = "clean-initramfs"
    /\ pc' = "idle"
    /\ tree' = EmptyTree
    /\ markers' = {}
    /\ lock' = FALSE
    /\ initrd' = "absent"
    /\ dirty' = FALSE
    /\ exit' = "none"
    /\ UNCHANGED <<config, localVars, espVars>>
    /\ UNCHANGED calc

\* (mutant: clean-esp removes the staged tree as well)
CleanEsp_AndTree ==
    /\ \E c \in Commands : Invoke(c) /\ Dispatch(c) = "clean-esp"
    /\ pc' = "idle"
    /\ tree' = EmptyTree
    /\ markers' = {}
    /\ lock' = FALSE
    /\ espDir' = EmptyEsp
    /\ espFile' = "absent"
    /\ espImg' = {}
    /\ built' = FALSE
    /\ exit' = "none"
    /\ UNCHANGED <<config, initrd, dirty, localVars>>
    /\ UNCHANGED calc

\* main(), lines 465-469: clean-esp removes ESP_DIR and ESP_FILENAME.
CleanEsp ==
    /\ \E c \in Commands : Invoke(c) /\ Dispatch(c) = "clean-esp"
    /\ pc' = "idle"
    /\ espDir' = EmptyEsp
    /\ espFile' = "absent"
    /\ espImg' = {}
    /\ built' = FALSE
    /\ exit' = "none"
    /\ UNCHANGED <<config, fsVars, localVars>>
    /\ UNCHANGED calc

\* main(), lines 475-477: clean-packages removes the fetched archives.
CleanPackages ==
    /\ \E c \in Commands : Invoke(c) /\ Dispatch(c) = "clean-packages"
    /\ pc' = "idle"
    /\ exit' = "none"
    /\ UNCHANGED <<config, fsVars, localVars, espVars, calc>>

Next ==
    \/ UnknownCommand
    \/ CleanPackages
    \/ StartBuild
    \/ Kill
    \/ ExtractSkip
    \/ ExtractOpen
    \/ ExtractBadArchive
    \/ ExtractMember
    \/ ExtractMemberFails
    \/ ExtractMark
    \/ copy_overlay
    \/ copy_overlay_fails
    \/ Decide
    \/ run_depmod_raises
    \/ run_depmod
    \/ PackLock
    \/ PackPipelineStart
    \/ PackPipelineEnd
    \/ PackUnlock
    \/ Raise
    \/ EspCheck
    \/ build_esp_grub_file
    \/ build_esp_grub_cfg
    \/ build_esp_systemd_stub
    \/ StubKernel
    \/ StubInitrd
    \/ StubObjcopy
    \/ pack_esp
    \/ PackMkfs
    \/ PackCopy
    \/ EbgPrepare
    \/ EbgCreateImage
    \/ EbgParted
    \/ EbgFindLoop
    \/ EbgAttach
    \/ EbgMkdtemp
    \/ EbgCall
    \/ EbgRaises
    \/ EbgMount
    \/ EbgUmount
    \/ EbgDetach
    \/ Exit0
    \/ Clean
    \/ CleanInitramfs
    \/ CleanEsp

Spec == Init /\ [][Next]_vars

\* ------------------- parts of the build functions taken by themselves
\* build_esp_efibootguard(), lines 360-361.
esp_size == 5
free_space == 100 - esp_size

\* (mutant: the ESP reservation is left out)
partition_start_NoEsp(n, i) == (i * free_space) \div n

\* Lines 362 and 371: math.floor(esp_size + i * (free_space / num_slots)).  The
\* double-precision value has the floor of the exact quotient for every
\* num_slots up to 174.
partition_start(n, i) == esp_size + (i * free_space) \div n

\* (mutant: the slot's share is rounded up)
partition_end_RoundedUp(n, i) ==
    partition_start(n, i) + (free_space + n - 1) \div n

\* Line 372: math.floor(partition_start + free_space / num_slots), with
\* partition_start already an integer.
partition_end(n, i) == partition_start(n, i) + free_space \div n

\* Lines 370-373: the mkpart boundaries of the slots, i = 0..num_slots-1.
Layout(n) == [i \in 0..(n - 1) |-> <<partition_start(n, i), partition_end(n, i)>>]

\* The state of the cache and of the process while a computation is looked at
\* by itself: an empty cache, no process.
CalcIdle ==
    /\ pc = "idle"
    /\ cmd = "none"
    /\ config = [debs |-> <<>>, overlays |-> <<>>,
                 boot |-> [mechanism |-> "efibootguard", arch |-> "arm64",
                           slots |-> 1]]
    /\ exit = "none"
    /\ tree = EmptyTree
    /\ markers = {}
    /\ lock = FALSE
    /\ initrd = "absent"
    /\ dirty = FALSE
    /\ has_changes = FALSE
    /\ idx = 0
    /\ member = 0
    /\ packInvoked = FALSE
    /\ startIncomplete = FALSE
    /\ repeat = FALSE
    /\ startTree = EmptyTree
    /\ toolFailed = FALSE
    /\ exc = FALSE
    /\ loop = FALSE
    /\ mountScope = {}
    /\ espDir = EmptyEsp
    /\ espFile = "absent"
    /\ espImg = {}
    /\ built = FALSE

mainVars == <<pc, cmd, config, exit, fsVars, localVars, espVars>>

\* The inputs: a slot count for the partition layout.
LayoutInputs ==
    {[fn |-> "parted", num_slots |-> n, done |-> FALSE, out |-> <<>>] :
        n \in 1..MaxLayoutSlots}

\* Strings are sequences of pieces; + on strings is \o.
CommonCmdlines == {<<"quiet">>, <<"ro", " ", "quiet">>}
SlotLabels == {"A", "B"}
SlotCmdlines == {<<"slot=a">>, <<"slot=b">>}
SlotTimeouts == {0, 30}

\* An entry of image_config["slots"].
Slots == [label : SlotLabels, cmdline : SlotCmdlines, timeout : SlotTimeouts]

\* Line 400: slot = image_config["slots"][slot_num - 1] (0-based there,
\* 1-based here).
slot(slots, slot_num) == slots[slot_num]

\* Lines 403-404.
slot_cmdline(common_cmdline, s) ==
    common_cmdline \o <<" ">> \o s.cmdline \o <<" ", "initrd=\\initrd.gz">>

\* Lines 399, 408 and 415: the argument vector handed to bg_setenv for the
\* slot, and the partition mounted at the directory it writes to.  No shell
\* takes part in the call, so the two double quotes of the f-string are part
\* of the value of --args.
bg_setenv(common_cmdline, slots, slot_num) ==
    LET s == slot(slots, slot_num)
    IN  [partition |-> 1 + slot_num,
         r         |-> slot_num,
         kernel    |-> <<"C:", s.label, ":vmlinuz-linux">>,
         args      |-> <<"\"">> \o slot_cmdline(common_cmdline, s) \o <<"\"">>,
         watchdog  |-> s.timeout]

\* The inputs: a common command line and a slot list of length 1..MaxSlots.
SetenvInputs ==
    {[fn |-> "bg_setenv", common_cmdline |-> c, slots |-> sl, done |-> FALSE,
      out |-> <<>>] :
        c \in CommonCmdlines,
        sl \in UNION {[1..n -> Slots] : n \in 1..MaxSlots}}

\* build_esp_systemd_stub(), lines 270-288: the --change-section-vma values
\* 0x20000, 0x30000, 0x2000000 and 0x3000000.
osrel_vma == 131072
cmdline_vma == 196608
linux_vma == 33554432
initrd_vma == 50331648

\* Sizes in bytes of the files handed to objcopy: etc/os-release and the
\* command line are short texts; the decompressed kernel and the decompressed
\* archive are images of up to 32 MiB here (1 byte, 16 MiB, 16 MiB + 1, 32 MiB).
\* The function reads no size and refuses none.
TextSizes == {1, 4096}
ImageSizes == {1, 16777216, 16777217, 33554432}

\* Lines 264-292: the sections objcopy adds to the stub, each with the whole
\* content of its file and the address given for it.
objcopy(osrel, cmdline, linux, initrd_) ==
    [osrel   |-> [vma |-> osrel_vma,   size |-> osrel],
     cmdline |-> [vma |-> cmdline_vma, size |-> cmdline],
     linux   |-> [vma |-> linux_vma,   size |-> linux],
     initrd  |-> [vma |-> initrd_vma,  size |-> initrd_]]

\* The inputs: the sizes of the four files.
ObjcopyInputs ==
    {[fn |-> "objcopy", osrel |-> o, cmdline |-> c, linux |-> k, initrd |-> r,
      done |-> FALSE, out |-> <<>>] :
        o \in TextSizes, c \in TextSizes, k \in ImageSizes, r \in ImageSizes}

\* The loop devices of the host, and what backs one: nothing ("free"), the
\* file of another process ("other"), or ESP_FILENAME of this run ("image").
LoopDevs == 0..(MaxLoopDevs - 1)
NoDev == MaxLoopDevs
FreeDevs(table) == {d \in LoopDevs : table[d] = "free"}

\* losetup -f: the first unused loop device (NoDev when there is none).
FirstFree(table) ==
    IF FreeDevs(table) = {} THEN NoDev
    ELSE CHOOSE d \in FreeDevs(table) : \A e \in FreeDevs(table) : d <= e

\* The inputs: a slot count and the loop devices other processes hold when
\* build_esp_efibootguard reaches line 381.
LoopInputs ==
    {[fn |-> "losetup", num_slots |-> n, table |-> t, at |-> "find",
      loop_dev |-> NoDev, part |-> 0, touched |-> {}] :
        n \in 1..MaxSlots, t \in [LoopDevs -> {"free", "other"}]}

CalcInit ==
    /\ CalcIdle
    /\ calc \in (LayoutInputs \cup SetenvInputs \cup ObjcopyInputs \cup LoopInputs)

\* Lines 359-373 applied to the slot count.
ComputeLayout ==
    /\ calc.fn = "parted"
    /\ ~calc.done
    /\ calc' = [calc EXCEPT !.done = TRUE, !.out = Layout(calc.num_slots)]
    /\ UNCHANGED mainVars

\* Lines 398-426, one pass of the slot loop: slot_num is the next of
\* range(1, 1 + num_slots).
SlotSetenv ==
    /\ calc.fn = "bg_setenv"
    /\ ~calc.done
    /\ LET slot_num == Len(calc.out) + 1
       IN  calc' = [calc EXCEPT
                       !.out = Append(calc.out,
                                      bg_setenv(calc.common_cmdline, calc.slots,
                                                slot_num)),
                       !.done = (slot_num = Len(calc.slots))]
    /\ UNCHANGED mainVars

\* Lines 264-292 applied to the four files, once and then once more.
EmbedSections ==
    /\ calc.fn = "objcopy"
    /\ ~calc.done
    /\ calc' = [calc EXCEPT
                    !.out = Append(calc.out,
                                   objcopy(calc.osrel, calc.cmdline, calc.linux,
                                           calc.initrd)),
                    !.done = (Len(calc.out) = 1)]
    /\ UNCHANGED mainVars

\* Line 381: loop_dev = the output of losetup -f; check_output raises when
\* the tool finds no device.
LosetupFind ==
    /\ calc.fn = "losetup"
    /\ calc.at = "find"
    /\ calc' = [calc EXCEPT
                    !.loop_dev = FirstFree(calc.table),
                    !.at = IF FirstFree(calc.table) = NoDev THEN "end"
                           ELSE "attach"]
    /\ UNCHANGED mainVars

\* Another process attaches a file of its own to the first unused loop device,
\* at any moment of the run.
OtherAttaches ==
    /\ calc.fn = "losetup"
    /\ calc.at \in {"find", "attach", "slots"}
    /\ FirstFree(calc.table) # NoDev
    /\ calc' = [calc EXCEPT !.table[FirstFree(calc.table)] = "other"]
    /\ UNCHANGED mainVars

\* Line 383: losetup -Pf ESP_FILENAME attaches the image to the first device
\* that is unused now; the call's status and output are dropped.
LosetupAttach ==
    /\ calc.fn = "losetup"
    /\ calc.at = "attach"
    /\ calc' = [calc EXCEPT
                    !.table = IF FirstFree(calc.table) = NoDev THEN calc.table
                              ELSE [calc.table EXCEPT
                                       ![FirstFree(calc.table)] = "image"],
                    !.at = "slots",
                    !.part = 1]
    /\ UNCHANGED mainVars

\* Lines 390-396 (p1) and 399-426 (p{1 + slot_num}): the partition device
\* named after loop_dev is formatted, mounted and written.  touched records
\* the device, the partition and what backed the device then.
TouchPartition ==
    /\ calc.fn = "losetup"
    /\ calc.at = "slots"
    /\ calc.part <= 1 + calc.num_slots
    /\ calc' = [calc EXCEPT
                    !.touched = @ \cup {[dev |-> calc.loop_dev,
                                         part |-> calc.part,
                                         backing |-> calc.table[calc.loop_dev]]},
                    !.part = @ + 1]
    /\ UNCHANGED mainVars

\* Line 429: losetup -D detaches every loop device that is in use.
LosetupDetachAll ==
    /\ calc.fn = "losetup"
    /\ calc.at = "slots"
    /\ calc.part > 1 + calc.num_slots
    /\ calc' = [calc EXCEPT !.table = [d \in LoopDevs |-> "free"],
                            !.at = "end"]
    /\ UNCHANGED mainVars

CalcNext ==
    \/ ComputeLayout
    \/ SlotSetenv
    \/ EmbedSections
    \/ LosetupFind
    \/ OtherAttaches
    \/ LosetupAttach
    \/ TouchPartition
    \/ LosetupDetachAll

CalcSpec == CalcInit /\ [][CalcNext]_vars

\* ------------------------------------------------------------------ claims

\* C1: a run that directly follows a successful run of the same configuration
\* ends the stages Base, Packages and Overlays with has_changes still false
\* and with the staged tree it started with.
C1_Idempotent ==
    (repeat /\ pc = "decide") => (~has_changes /\ tree = startTree)

\* C2: a run reaches the boot-assembly step with a completion marker written
\* since the last pack, and a complete older archive, only after it has called
\* pack_initramfs itself.
C2_RepackedWhenStale ==
    (pc = "esp_check" /\ dirty /\ initrd = "complete") => packInvoked

\* C3: a run that started with the lock marker present or the archive missing
\* does not reach the boot-assembly step without having called
\* pack_initramfs, whatever the stages reported.
C3_CrashRecovery ==
    (pc = "esp_check" /\ startIncomplete) => packInvoked

\* C3 witness: such a run, in which no stage reported a change, has packed.
C3_Witness ==
    pc = "esp_check" /\ startIncomplete /\ ~has_changes /\ packInvoked

\* C4: an archive file without the lock marker is a completely written
\* archive.
C4_LockProtocol ==
    (initrd # "absent" /\ ~lock) => initrd = "complete"

\* C5: while a unit's archive is being extracted the unit has no marker; a
\* marker is written only in a step that leaves every member of the unit
\* extracted in the staged tree; a run that ends in extract_rootfs or
\* install_package ends without writing a marker; and a unit without marker
\* is extracted from its first member.
C5_NoMarkerYet ==
    pc \in {"base_x", "pkg_x"} => ~IsInstalled(Unit)
C5_Step ==
    /\ (pc # "idle" /\ markers' # markers) =>
          \E u \in markers' \ markers :
              /\ markers' = markers \cup {u}
              /\ \A k \in 1..Len(Members(u)) : tree'[Members(u)[k]] = u
    /\ (pc \in {"base", "base_x", "pkg", "pkg_x"} /\ pc' \in {"idle", "raise"}) =>
          markers' = markers
    /\ (pc \in {"base", "pkg"} /\ ~IsInstalled(Unit) /\ pc' # "idle") =>
          (pc' \in {"base_x", "pkg_x"} /\ member' = 1)
C5_NoMarkerOnFailure == []C5_NoMarkerYet /\ [][C5_Step]_vars

\* C5 witness: a run ended after extracting the first member of the kernel
\* package and before the second; the package has no marker.
C5_Witness ==
    /\ pc = "idle"
    /\ exit = "fail"
    /\ tree["boot"] = Pkg(1)
    /\ tree["modules"] = NoFile
    /\ ~IsInstalled(Pkg(1))

\* C6: when build_esp_efibootguard returns or lets an exception out, every
\* losetup -Pf it issued has been followed by losetup -D.
C6_LoopDetached ==
    pc \in {"exit0", "raise"} => ~loop

\* C6 witness: an exception raised after the attach leaves the function, the
\* detach issued.
C6_Witness ==
    pc = "raise" /\ exc /\ ~loop

ArtifactFiles(m) ==
    IF m = "grub"
    THEN {"efi/boot/boot.efi", "efi/ubuntu/vmlinuz", "efi/ubuntu/initrd.gz",
          "efi/ubuntu/grub.cfg"}
    ELSE {"efi/boot/boot.efi", "efi/boot/vmlinux", "efi/boot/initrd.gz",
          "efi/boot/initrd"}

\* The boot artifact of grub or systemd-stub is complete: every file written
\* and the FAT image formatted and populated with every entry of ESP_DIR.
ArtifactComplete(m) ==
    /\ \A f \in ArtifactFiles(m) : espDir[f] # NoFile
    /\ espFile = "fat"
    /\ espImg = {e \in EspNames : espDir[e] # NoFile}

\* C8: whenever main() finds is_esp_created() true, the boot artifact of the
\* configured mechanism (grub, systemd-stub) is complete.
C8_NoPartialArtifact ==
    (pc = "esp_check" /\ is_esp_created
        /\ config.boot.mechanism \in {"grub", "systemd-stub"})
    => ArtifactComplete(config.boot.mechanism)

\* C9: once a run has built the boot artifact and exited with status 0, the
\* next run finds is_esp_created() true (and so calls no build function).
C9_BuiltOnce ==
    (pc = "esp_check" /\ built /\ repeat) => is_esp_created

\* C10: a run in which an external tool exited nonzero does not exit with
\* status 0.
C10_ToolFailureFatal ==
    pc = "exit0" => ~toolFailed

\* The mechanisms main() has a build function for, lines 515-520.
SupportedMechanisms == {"grub", "systemd-stub", "efibootguard"}

\* C11: a default build run leaves main() with status 0 only when the
\* configured mechanism is one main() supports and the image file of the boot
\* artifact exists; an unsupported mechanism or architecture ends the run
\* with a nonzero status.
C11_InputErrorsFatal ==
    pc = "exit0" =>
        (config.boot.mechanism \in SupportedMechanisms /\ espFile # "absent")

\* The package that ships the grub binary (line 300) and the systemd stub
\* (lines 231-233).
LoaderPackage == Pkg(2)

\* The files (not the directories) under ESP_DIR.
EspFiles == {e \in EspNames : e \notin {"efi", "efi/boot", "efi/ubuntu"}}

\* The steps of build_esp_grub, build_esp_systemd_stub and pack_esp.
AssemblySteps ==
    {"grub", "stub", "stub_kernel", "stub_initrd", "stub_objcopy", "pack_esp",
     "pack_mkfs", "pack_copy"}

\* C12: while the completion marker of the boot loader package is absent, no
\* step of build_esp_grub or build_esp_systemd_stub writes a file of the boot
\* artifact (a file under ESP_DIR, or the image file).
C12_RequiredPackages ==
    [][(pc \in AssemblySteps /\ ~IsInstalled(LoaderPackage)) =>
          (espFile' = espFile /\ \A e \in EspFiles : espDir'[e] = espDir[e])]_vars

\* The layout of a finished computation has start_i = floor(5 + i*(95/N)) and
\* end_i = floor(start_i + 95/N), strictly increasing boundaries, and a final
\* end of at most 100.
LayoutAsSpecified(n, out) ==
    /\ \A i \in 0..(n - 1) :
        /\ out[i][1] = 5 + (95 * i) \div n
        /\ out[i][2] = out[i][1] + 95 \div n
        /\ out[i][1] < out[i][2]
        /\ (i + 1 < n) => out[i][1] < out[i + 1][1]
    /\ out[n - 1][2] <= 100

\* C13 (as stated): for every slot count N >= 1 the layout is as specified.
C13_LayoutEveryN ==
    (calc.fn = "parted" /\ calc.done) =>
        LayoutAsSpecified(calc.num_slots, calc.out)

\* C13 (amended): for every slot count N from 1 to 95 (the slot share in
\* percent) the layout is as specified.
C13_LayoutUpTo95 ==
    (calc.fn = "parted" /\ calc.done /\ calc.num_slots <= free_space) =>
        LayoutAsSpecified(calc.num_slots, calc.out)

\* C13 witness: the layout of 95 slots is computed; its last slot is 99..100.
C13_Witness ==
    /\ calc.fn = "parted"
    /\ calc.done
    /\ calc.num_slots = free_space
    /\ calc.out[free_space - 1] = <<99, 100>>

\* C14: a call of copy_overlay that finds every file of the overlay in the
\* staged tree with the overlay's content returns False (has_changes keeps
\* its value) and leaves the staged tree as it is.
C14_OverlayNoOp ==
    [][(/\ pc = "overlay"
        /\ pc' # "idle"
        /\ CopyTree(config.overlays[idx], tree) = tree)
       => (has_changes' = has_changes /\ tree' = tree)]_vars

\* C15: the packages are taken in configuration order, each by its own
\* marker.  While package number idx is at hand every package before it has
\* its marker; a package whose marker exists is passed without extraction,
\* one whose marker is missing is extracted; writing a marker sets
\* has_changes, which stays set until main() has tested it.
C15_InOrder ==
    pc \in {"pkg", "pkg_x"} =>
        /\ idx \in 1..Len(config.debs)
        /\ \A j \in 1..(idx - 1) : Pkg(config.debs[j]) \in markers
C15_Step ==
    /\ (pc = "pkg" /\ Pkg(config.debs[idx]) \in markers /\ pc' # "idle") =>
          /\ tree' = tree /\ markers' = markers /\ has_changes' = has_changes
          /\ pc' # "pkg_x"
    /\ (pc = "pkg" /\ Pkg(config.debs[idx]) \notin markers /\ pc' # "idle") =>
          /\ pc' = "pkg_x" /\ idx' = idx /\ member' = 1
    /\ (pc = "pkg_x" /\ markers' # markers) =>
          /\ markers' = markers \cup {Pkg(config.debs[idx])}
          /\ has_changes'
    /\ (pc \in {"pkg", "pkg_x"} /\ pc' = "pkg") => idx' = idx + 1
    /\ (pc \in {"base", "base_x", "pkg", "pkg_x", "overlay"} /\ has_changes
            /\ pc' # "idle") => has_changes'
C15_PackageResume == []C15_InOrder /\ [][C15_Step]_vars

\* C15 witness: after a run that ended before the pack, a run has passed the
\* base and package 1 without extraction and is extracting package 2.
C15_Witness ==
    /\ pc = "pkg_x"
    /\ idx = 2
    /\ startIncomplete
    /\ ~has_changes
    /\ Pkg(1) \in markers
    /\ Pkg(2) \notin markers

\* The steps of the pack (run_depmod, pack_initramfs) and of boot assembly.
PackSteps == {"depmod", "pack", "pack_pipe", "pack_wait", "pack_unlock"}
BootSteps ==
    {"esp_check", "ebg", "ebg_image", "ebg_parted", "ebg_find", "ebg_attach",
     "ebg_mkdtemp", "ebg_detach"}
    \cup AssemblySteps \cup EbgCalls \cup EbgMounts \cup EbgUmounts

\* The stage of main() a step belongs to: 1 Base, 2 packages, 3 overlays,
\* 4 pack, 5 boot assembly (0 before the stages).
Stage(p) ==
    IF p = "idle" THEN 0
    ELSE IF p \in {"base", "base_x"} THEN 1
    ELSE IF p \in {"pkg", "pkg_x"} THEN 2
    ELSE IF p = "overlay" THEN 3
    ELSE IF p \in PackSteps \cup {"decide"} THEN 4
    ELSE 5

\* C16: the steps of a run go through the stages in order, packages and
\* overlays in listed order; a package is at hand only when the base marker
\* exists, overlays and pack only when every listed package has its marker
\* too, and boot assembly only when moreover the archive exists and the lock
\* marker is absent.
C16_MarkersBefore ==
    /\ Stage(pc) >= 2 /\ pc \notin {"idle", "raise", "exit0"} =>
          BaseUnit \in markers
    /\ Stage(pc) >= 3 /\ pc \notin {"idle", "raise", "exit0"} =>
          \A j \in 1..Len(config.debs) : Pkg(config.debs[j]) \in markers
    /\ pc \in BootSteps => (initrd # "absent" /\ ~lock)
C16_Step ==
    /\ (pc \notin {"idle", "raise", "exit0"}
            /\ pc' \notin {"idle", "raise", "exit0"}) => Stage(pc') >= Stage(pc)
    /\ (Stage(pc) = 2 /\ pc' = "pkg") => idx' = idx + 1
    /\ (pc = "overlay" /\ pc' = "overlay") => idx' = idx + 1
    /\ (pc = "idle" /\ pc' # "idle") => pc' = "base"
C17_UnknownCommand ==
    [][(pc = "idle" /\ cmd' \notin {"none", "clean", "clean-esp",
                                    "clean-initramfs", "clean-packages"})
       => (pc' = "idle" /\ exit' = "fail"
           /\ UNCHANGED <<tree, markers, lock, initrd, espDir, espFile, espImg>>)]_vars

\* C17 witness: an unrecognized command has ended over a cache that holds a
\* staged tree and an archive.
C17_Witness ==
    /\ pc = "idle"
    /\ cmd = "other"
    /\ exit = "fail"
    /\ markers # {}
    /\ initrd = "complete"

\* The record the claim describes for the slot at 1-based position k.
RecordAsSpecified(common, slots, k, rec) ==
    /\ rec.partition = k + 1
    /\ rec.r = k
    /\ rec.kernel = <<"C:", slots[k].label, ":vmlinuz-linux">>
    /\ rec.watchdog = slots[k].timeout
    /\ rec.args = common \o <<" ">> \o slots[k].cmdline
                         \o <<" ", "initrd=\\initrd.gz">>

\* C18: for a slot list of length N >= 1, the records written are N, one per
\* position k = 1..N in this order, and the record of position k goes to
\* partition k + 1 with revision k, the kernel reference of slot k's label,
\* slot k's timeout, and as command line the common command line, slot k's
\* suffix and initrd=\initrd.gz.
C18_SlotRecord ==
    (calc.fn = "bg_setenv" /\ calc.done) =>
        /\ Len(calc.out) = Len(calc.slots)
        /\ \A k \in 1..Len(calc.slots) :
              RecordAsSpecified(calc.common_cmdline, calc.slots, k, calc.out[k])

\* C19: a pass of build_esp_grub's loop that returns leaves the destination
\* with the content of the source (the source is copied when the destination
\* is missing or differs in content) and leaves the boot directory as it was
\* when the destination already had that content (no copy); after the three
\* files grub.cfg is written and pack_esp is called.
C19_CompareBeforeCopy ==
    [][/\ (pc = "grub" /\ idx <= GrubFiles /\ pc' = "grub") =>
            /\ espDir'[GrubDst(idx)] = GrubSrc(idx)
            /\ (espDir[GrubDst(idx)] = GrubSrc(idx) => espDir' = espDir)
       /\ (pc = "grub" /\ idx > GrubFiles /\ pc' \notin {"raise", "idle"}) =>
            /\ espDir'["efi/ubuntu/grub.cfg"] = <<"cfg", 0>>
            /\ pc' = "pack_esp"]_vars

SectionNames == {"osrel", "cmdline", "linux", "initrd"}

\* The address ranges [vma, vma + size) of two sections have no address in
\* common.
Disjoint(a, b) == a.vma + a.size <= b.vma \/ b.vma + b.size <= a.vma

\* C20: the sections are placed at 0x20000 (osrel), 0x30000 (cmdline),
\* 0x2000000 (linux) and 0x3000000 (initrd); whatever the sizes of the four
\* files, the address ranges of the sections are pairwise disjoint; and
\* embedding the same files twice gives the same result.
C20_SectionLayout ==
    (calc.fn = "objcopy" /\ calc.done) =>
        /\ calc.out[1].osrel.vma = 131072
        /\ calc.out[1].cmdline.vma = 196608
        /\ calc.out[1].linux.vma = 33554432
        /\ calc.out[1].initrd.vma = 50331648
        /\ \A a, b \in SectionNames :
              a # b => Disjoint(calc.out[1][a], calc.out[1][b])
        /\ calc.out[2] = calc.out[1]

\* The units a configuration asks for: the base and its packages.
ConfiguredUnits(c) == {BaseUnit} \cup {Pkg(c.debs[i]) : i \in 1..Len(c.debs)}

\* The paths the archive of a unit ships.
Ships(u) == {Members(u)[k] : k \in 1..Len(Members(u))}

Providers(c, p) == {j \in 1..Len(c.overlays) : p \in Ships(Ovl(c.overlays[j]))}

\* The greatest member of a non-empty set of numbers.
Last(S) == CHOOSE j \in S : \A k \in S : k <= j

C25_NoOverlap ==
    (calc.fn = "parted" /\ calc.done) =>
        /\ calc.out[0][1] >= 5
        /\ \A i \in 0..(calc.num_slots - 2) :
              calc.out[i][2] <= calc.out[i + 1][1]

\* C25 witness: the layout of three slots is computed; the second slot ends
\* at 67, the third starts at 68: a gap, no overlap.
C25_Witness ==
    /\ calc.fn = "parted"
    /\ calc.done
    /\ calc.num_slots = 3
    /\ calc.out[1] = <<36, 67>>
    /\ calc.out[2] = <<68, 99>>

\* C24: every partition device the run formats, mounts or writes belongs to
\* the loop device that backs this run's image, also when another process
\* attaches a loop device between this run's losetup -f and its losetup -Pf.
C24_LoopIdentity ==
    calc.fn = "losetup" =>
        \A t \in calc.touched : t.backing = "image"
====
